---- MODULE Spec2Model ----
(***************************************************************************)
(* Model of service.Application (go-bluetooth): the object-tree lifecycle  *)
(* manager of a BLE peripheral.  One action per public operation; each     *)
(* action is the whole Go method, its external calls recorded in           *)
(* last.calls in the order the method issues them.                         *)
(***************************************************************************)
EXTENDS Integers, Sequences, FiniteSets, TLC

VARIABLES
    config,         \* *ApplicationConfig: ObjectPath, LocalName, callback slots
    serviceIndex,   \* ApplicationConfig.serviceIndex
    gatt,           \* the GattService1 objects CreateService has built, by ID
    services,       \* Application.services: path -> service (ID)
    objects,        \* ObjectManager's snapshot: path -> interface -> properties
    exported,       \* object paths exported on the bus connection
    introspection,  \* children of the root node last published by exportTree
    bus,            \* bus name ownership and ObjectManager export at the root
    advertisement,  \* Application.advertisement (NULL when nil)
    daemon,         \* last LEAdvertisingManager1 method called on the daemon
    registered,     \* advertisement paths the daemon holds registered
    faults,         \* failures the bus, the daemon and the factories have answered
    last            \* the last operation: name, argument, calls issued, result

vars == <<config, serviceIndex, gatt, services, objects, exported,
          introspection, bus, advertisement, daemon, registered, faults, last>>

-----------------------------------------------------------------------------
(* Bounds *)

MaxServices == 2    \* CreateService calls
MaxChars == 1       \* characteristics configured over all services
MaxDescs == 1       \* descriptors configured over all characteristics
MaxFaults == 1      \* failing answers of the bus, the daemon and the factories

-----------------------------------------------------------------------------
(* Values *)

NULL == [nil |-> TRUE]      \* Go nil (pointer, error)
Error(msg) == [msg |-> msg] \* errors.New(msg)
NoNode == {"<unpublished>"} \* no root introspection published yet

UUIDSuffix == "-0000-1000-8000-00805F9B34FB"

CALLBACK_NOT_REGISTERED == -1
CALLBACK_FUNCTION_ERROR == -2

AppPaths == {"/", "/org/example/app"}

\* ApplicationConfig.UUID and ApplicationConfig.UUIDSuffix, as the caller
\* filled them: the SIG values, another value, or left empty
ConfiguredBases == {"0000", "F000", ""}
ConfiguredSuffixes == {UUIDSuffix, "-1212-EFDE-1523-785FEABCD123", ""}

\* every configuration NewApplication is given: a root path, the UUID base
\* and suffix, and each callback slot nil (FALSE) or set (TRUE)
AllConfigs ==
    [ObjectPath : AppPaths, LocalName : {"peripheral0"},
     UUID : ConfiguredBases, UUIDSuffix : ConfiguredSuffixes,
     ReadFunc : BOOLEAN, WriteFunc : BOOLEAN,
     DescReadFunc : BOOLEAN, DescWriteFunc : BOOLEAN]

\* two of them, for the specifications of the operations that read no slot:
\* both shapes of the root path, every slot once nil and once set
Configs ==
    {[ObjectPath |-> "/", LocalName |-> "peripheral0",
      UUID |-> "0000", UUIDSuffix |-> UUIDSuffix,
      ReadFunc |-> FALSE, WriteFunc |-> TRUE,
      DescReadFunc |-> TRUE, DescWriteFunc |-> FALSE],
     [ObjectPath |-> "/org/example/app", LocalName |-> "peripheral0",
      UUID |-> "0000", UUIDSuffix |-> UUIDSuffix,
      ReadFunc |-> TRUE, WriteFunc |-> FALSE,
      DescReadFunc |-> FALSE, DescWriteFunc |-> TRUE]}
ServiceUUIDs == {"0000180D" \o UUIDSuffix, "0000180F" \o UUIDSuffix}
DeviceNames == {"hci0", "hci1"}
Payloads == {<<>>, <<42>>}
CallbackErrors == {Error("denied")}
ExportErr == Error("dbus: invalid path name")
SignalErr == Error("dbus: emit failed")
NameErr == Error("dbus: name request failed")
NewErr == Error("properties: cannot build")
DaemonErrors == {Error("org.bluez.Error.Failed")}

GattService1Interface == "org.bluez.GattService1"
LEAdvertisingManager1 == "org.bluez.LEAdvertisingManager1"

NameFlagReplaceExisting == 2
NameFlagDoNotQueue == 4

-----------------------------------------------------------------------------
(* Helpers on Go maps *)

MapPut(m, k, v) == [x \in DOMAIN m \cup {k} |-> IF x = k THEN v ELSE m[x]]
MapDelete(m, k) == [x \in DOMAIN m \ {k} |-> m[x]]
EmptyMap == <<>>

Call(name, arg) == [call |-> name, arg |-> arg]

\* an operation may be answered one failure while the budget lasts
Fault(failed) ==
    /\ failed => faults < MaxFaults
    /\ faults' = IF failed THEN faults + 1 ELSE faults

-----------------------------------------------------------------------------
(* Init: the Application NewApplication returns *)

Init ==
    /\ config \in AllConfigs
    /\ serviceIndex = 0
    /\ gatt = EmptyMap
    /\ services = EmptyMap
    /\ objects = EmptyMap
    /\ exported = {}
    /\ introspection = NoNode
    /\ bus = [name |-> FALSE, manager |-> FALSE]
    /\ advertisement = NULL
    /\ daemon = "none"
    /\ registered = {}
    /\ faults = 0
    /\ last = [op |-> "NewApplication", arg |-> NULL, calls |-> <<>>,
               err |-> NULL, value |-> NULL]

-----------------------------------------------------------------------------
(* Application.Path, GenerateUUID, CreateService *)

Path == config.ObjectPath

\* the string GenerateUUID returns under the configuration cfg
GeneratedUUID(cfg, uuidVal) ==
    LET base == IF Len(uuidVal) = 8 THEN "" ELSE cfg.UUID
    IN  base \o uuidVal \o cfg.UUIDSuffix

GenerateUUID(uuidVal) ==
    /\ last' = [op |-> "GenerateUUID", arg |-> uuidVal, calls |-> <<>>,
                err |-> NULL, value |-> GeneratedUUID(config, uuidVal)]
    /\ UNCHANGED <<config, serviceIndex, gatt, services, objects, exported,
                   introspection, bus, advertisement, daemon, registered, faults>>

\* mutant: the index is taken from the size of the service map
NextServiceIndex_FromMap(idx) == Cardinality(DOMAIN services) + 1

NextServiceIndex(idx) == idx + 1

ServicePath(appPath, idx) ==
    (IF appPath = "/" THEN "" ELSE appPath) \o "/service" \o ToString(idx)

ServiceAdvertised(advertised_optional) ==
    IF Len(advertised_optional) > 0 THEN advertised_optional[1] ELSE FALSE

NewGattService1(path, id, advertised, uuid) ==
    [objectPath |-> path, ID |-> id, advertised |-> advertised,
     UUID |-> uuid, characteristics |-> EmptyMap]

\* mutant: the factory call registers the service it built
ServicesAfterCreate_Registered(svcs, s) == MapPut(svcs, s.objectPath, s.ID)

\* the service map CreateService leaves: it is not written
ServicesAfterCreate(svcs, s) == svcs

CreateService(uuid, advertised_optional, ok) ==
    /\ serviceIndex < MaxServices
    /\ Fault(~ok)
    /\ serviceIndex' = NextServiceIndex(serviceIndex)
    /\ LET path == ServicePath(Path, serviceIndex')
           s == NewGattService1(path, serviceIndex',
                                ServiceAdvertised(advertised_optional), uuid)
       IN  /\ gatt' = IF ok THEN MapPut(gatt, s.ID, s) ELSE gatt
           /\ services' = IF ok THEN ServicesAfterCreate(services, s) ELSE services
           /\ last' = [op |-> "CreateService", arg |-> path, calls |-> <<>>,
                       err |-> IF ok THEN NULL ELSE NewErr,
                       value |-> IF ok THEN s.ID ELSE NULL]
    /\ UNCHANGED <<config, objects, exported, introspection, bus,
                   advertisement, daemon, registered>>

-----------------------------------------------------------------------------
(* GattService1: configuration of a service before it is published *)

AllCharacteristics == UNION {DOMAIN gatt[i].characteristics : i \in DOMAIN gatt}

AllDescriptors ==
    UNION {UNION {gatt[i].characteristics[c] : c \in DOMAIN gatt[i].characteristics} :
              i \in DOMAIN gatt}

Unpublished(s) == s.objectPath \notin DOMAIN services /\ s.objectPath \notin exported

GattCharacteristic1Interface == "org.bluez.GattCharacteristic1"
GattDescriptor1Interface == "org.bluez.GattDescriptor1"

\* the directory entries of a characteristic and of a descriptor
CharacteristicProperties(servicePath) ==
    GattCharacteristic1Interface :> [Service |-> servicePath]

DescriptorProperties(charPath) ==
    GattDescriptor1Interface :> [Characteristic |-> charPath]

AddCharacteristic(id) ==
    /\ id \in DOMAIN gatt
    /\ Unpublished(gatt[id])
    /\ Cardinality(AllCharacteristics) < MaxChars
    /\ LET s == gatt[id]
           n == Cardinality(DOMAIN s.characteristics) + 1
           charPath == s.objectPath \o "/char" \o ToString(n)
       IN  /\ gatt' = [gatt EXCEPT ![id].characteristics = MapPut(@, charPath, {})]
           /\ exported' = exported \cup {charPath}
           /\ objects' = MapPut(objects, charPath,
                                CharacteristicProperties(s.objectPath))
           /\ last' = [op |-> "AddCharacteristic", arg |-> charPath,
                       calls |-> <<>>, err |-> NULL, value |-> NULL]
    /\ UNCHANGED <<config, serviceIndex, services,
                   introspection, bus, advertisement, daemon, registered, faults>>

AddDescriptor(id, charPath) ==
    /\ id \in DOMAIN gatt
    /\ Unpublished(gatt[id])
    /\ charPath \in DOMAIN gatt[id].characteristics
    /\ Cardinality(AllDescriptors) < MaxDescs
    /\ LET n == Cardinality(gatt[id].characteristics[charPath]) + 1
           descPath == charPath \o "/desc" \o ToString(n)
       IN  /\ gatt' = [gatt EXCEPT ![id].characteristics[charPath] = @ \cup {descPath}]
           /\ exported' = exported \cup {descPath}
           /\ objects' = MapPut(objects, descPath, DescriptorProperties(charPath))
           /\ last' = [op |-> "AddDescriptor", arg |-> descPath,
                       calls |-> <<>>, err |-> NULL, value |-> NULL]
    /\ UNCHANGED <<config, serviceIndex, services,
                   introspection, bus, advertisement, daemon, registered, faults>>

\* GattService1.Properties(): the one interface a service declares
Properties(s) ==
    GattService1Interface :> [UUID |-> s.UUID, Primary |-> TRUE,
                              Characteristics |-> DOMAIN s.characteristics]

\* the paths of a service and of its characteristics and descriptors
SubtreePaths(s) ==
    {s.objectPath} \cup DOMAIN s.characteristics
        \cup UNION {s.characteristics[c] : c \in DOMAIN s.characteristics}

\* GattService1.Expose(): exports the service and its descendants, or fails
Expose(s, ok) == IF ok THEN exported \cup SubtreePaths(s) ELSE exported

\* ObjectManager.AddObject / RemoveObject: the entry, then the notification
AddObject(objs, path, props) == MapPut(objs, path, props)
RemoveObject(objs, path) == MapDelete(objs, path)

-----------------------------------------------------------------------------
(* Application.exportTree *)

\* string(path)[1:]
NodeName(path) == SubSeq(path, 2, Len(path))

\* mutant: the walk stops at the services
TreeChildren_ServicesOnly(svcs) == {NodeName(p) : p \in DOMAIN svcs}

\* the Children of the root node, built from the service map given
TreeChildren(svcs) ==
    UNION {{NodeName(p)}
              \cup {NodeName(c) : c \in DOMAIN gatt[svcs[p]].characteristics}
              \cup UNION {{NodeName(d) : d \in gatt[svcs[p]].characteristics[c]} :
                             c \in DOMAIN gatt[svcs[p]].characteristics} :
           p \in DOMAIN svcs}

\* the node published at the root: replaced when conn.Export succeeds
exportTree(svcs, ok) == IF ok THEN TreeChildren(svcs) ELSE introspection

-----------------------------------------------------------------------------
(* Application.AddService, Application.RemoveService *)

AddServiceInsert(svcs, s) == MapPut(svcs, s.objectPath, s.ID)

\* mutant: the directory is not told of the service
AddServiceObject_Forgotten(objs, s) == objs

AddServiceObject(objs, s) == AddObject(objs, s.objectPath, Properties(s))

\* mutant: the directory is told of the service whatever the exports returned
DirectoryAddReached_Always(exposed, published) == TRUE

\* AddObject is reached when neither Expose nor exportTree returned an error
DirectoryAddReached(exposed, published) == exposed /\ published

AddService(id, fail) ==
    /\ id \in DOMAIN gatt
    /\ Fault(fail # "none")
    /\ LET s == gatt[id]
           path == s.objectPath
           inserted == AddServiceInsert(services, s)
           exposed == fail # "expose"
           published == exposed /\ fail # "tree"
           added == DirectoryAddReached(exposed, published)
       IN  /\ services' = inserted
           /\ exported' = Expose(s, exposed)
           /\ introspection' = IF exposed THEN exportTree(inserted, published)
                               ELSE introspection
           /\ objects' = IF added THEN AddServiceObject(objects, s) ELSE objects
           /\ last' = [op |-> "AddService", arg |-> path,
                       calls |-> <<Call("Expose", path)>>
                           \o (IF exposed
                               THEN <<Call("exportTree", TreeChildren(inserted))>>
                               ELSE <<>>)
                           \o (IF added
                               THEN <<Call("AddObject", path)>>
                               ELSE <<>>),
                       err |-> CASE fail = "expose" -> ExportErr
                                 [] fail = "tree" -> ExportErr
                                 [] fail = "directory" -> SignalErr
                                 [] OTHER -> NULL,
                       value |-> NULL]
    /\ UNCHANGED <<config, serviceIndex, gatt, bus, advertisement, daemon, registered>>

RemoveServiceDelete(svcs, s) == MapDelete(svcs, s.objectPath)

\* mutant: the entries of the characteristics and descriptors go too
RemoveServiceObject_Cascade(objs, s) ==
    [x \in DOMAIN objs \ SubtreePaths(s) |-> objs[x]]

RemoveServiceObject(objs, s) == RemoveObject(objs, s.objectPath)

RemoveService(id, fail) ==
    /\ id \in DOMAIN gatt
    /\ Fault(fail # "none")
    /\ LET s == gatt[id]
           path == s.objectPath
           present == path \in DOMAIN services
           deleted == RemoveServiceDelete(services, s)
           removed == fail # "directory"
       IN  /\ ~present => fail = "none"
           /\ services' = IF present THEN deleted ELSE services
           /\ objects' = IF present THEN RemoveServiceObject(objects, s) ELSE objects
           /\ introspection' = IF present /\ removed
                               THEN exportTree(deleted, fail # "tree")
                               ELSE introspection
           /\ last' = [op |-> "RemoveService", arg |-> path,
                       calls |-> IF ~present THEN <<>>
                                 ELSE <<Call("RemoveObject", path)>>
                                      \o (IF removed
                                          THEN <<Call("exportTree", TreeChildren(deleted))>>
                                          ELSE <<>>),
                       err |-> CASE fail = "directory" -> SignalErr
                                 [] fail = "tree" -> ExportErr
                                 [] OTHER -> NULL,
                       value |-> NULL]
    /\ UNCHANGED <<config, serviceIndex, gatt, exported, bus, advertisement, daemon, registered>>

-----------------------------------------------------------------------------
(* Application.Run, Application.expose *)

RECURSIVE BitAnd(_, _)
BitAnd(a, b) ==
    IF a = 0 \/ b = 0 THEN 0
    ELSE (IF a % 2 = 1 /\ b % 2 = 1 THEN 1 ELSE 0) + 2 * BitAnd(a \div 2, b \div 2)

RequestNameFlags == BitAnd(NameFlagDoNotQueue, NameFlagReplaceExisting)

expose(fail) ==
    LET named == fail # "name"
        managed == named /\ fail # "manager"
    IN  /\ bus' = [name |-> bus.name \/ named,
                   manager |-> bus.manager \/ managed]
        /\ introspection' = IF managed THEN exportTree(services, fail # "tree")
                            ELSE introspection
        /\ last' = [op |-> "Run", arg |-> Path,
                    calls |-> <<Call("RequestName", RequestNameFlags)>>
                        \o (IF named THEN <<Call("Export", Path)>> ELSE <<>>)
                        \o (IF managed
                            THEN <<Call("exportTree", TreeChildren(services))>>
                            ELSE <<>>),
                    err |-> CASE fail = "name" -> NameErr
                              [] fail \in {"manager", "tree"} -> ExportErr
                              [] OTHER -> NULL,
                    value |-> NULL]

Run(fail) ==
    /\ Fault(fail # "none")
    /\ expose(fail)
    /\ UNCHANGED <<config, serviceIndex, gatt, services, objects, exported,
                   advertisement, daemon, registered>>

-----------------------------------------------------------------------------
(* Dispatch of inbound reads and writes to the configured callbacks *)

NewCallbackError(code, msg) == [code |-> code, msg |-> msg]

\* mutant: a failing callback is reported as a missing one
ReadResult_WrongCode(b, e) ==
    [value |-> b,
     err |-> IF e # NULL THEN NewCallbackError(CALLBACK_NOT_REGISTERED, e.msg) ELSE NULL]

\* what a read callback returned becomes what the handler returns
ReadResult(b, e) ==
    [value |-> b,
     err |-> IF e # NULL THEN NewCallbackError(CALLBACK_FUNCTION_ERROR, e.msg) ELSE NULL]

WriteResult(e) ==
    [value |-> NULL,
     err |-> IF e # NULL THEN NewCallbackError(CALLBACK_FUNCTION_ERROR, e.msg) ELSE NULL]

NotRegistered(value) ==
    [value |-> value,
     err |-> NewCallbackError(CALLBACK_NOT_REGISTERED, "No callback registered.")]

\* mutant: a callback counts as registered only once a service is in the map
SlotIsNil_WithoutServices(slot) == ~config[slot] \/ services = EmptyMap

\* app.config.<slot> == nil
SlotIsNil(slot) == ~config[slot]

\* one dispatch: slot is the callback slot read, res what the handler returns
\* when the slot is set, returned what the callback returned
Dispatch(op, slot, args, unset, res, returned) ==
    /\ last' = IF SlotIsNil(slot)
               THEN [op |-> op, arg |-> args, calls |-> <<>>,
                     err |-> unset.err, value |-> unset.value]
               ELSE [op |-> op, arg |-> args,
                     calls |-> <<Call(slot, [args |-> args, returned |-> returned])>>,
                     err |-> res.err, value |-> res.value]
    /\ UNCHANGED <<config, serviceIndex, gatt, services, objects, exported,
                   introspection, bus, advertisement, daemon, registered, faults>>

HandleRead(srv_uuid, uuid, b, e) ==
    /\ ~config.ReadFunc => b = <<>> /\ e = NULL
    /\ Dispatch("HandleRead", "ReadFunc", <<srv_uuid, uuid>>,
                NotRegistered(<<>>), ReadResult(b, e), <<b, e>>)

HandleWrite(srv_uuid, uuid, value, e) ==
    /\ ~config.WriteFunc => e = NULL
    /\ Dispatch("HandleWrite", "WriteFunc", <<srv_uuid, uuid, value>>,
                NotRegistered(NULL), WriteResult(e), <<e>>)

HandleDescriptorRead(srv_uuid, char_uuid, desc_uuid, b, e) ==
    /\ ~config.DescReadFunc => b = <<>> /\ e = NULL
    /\ Dispatch("HandleDescriptorRead", "DescReadFunc",
                <<srv_uuid, char_uuid, desc_uuid>>,
                NotRegistered(<<>>), ReadResult(b, e), <<b, e>>)

HandleDescriptorWrite(srv_uuid, char_uuid, desc_uuid, value, e) ==
    /\ ~config.DescWriteFunc => e = NULL
    /\ Dispatch("HandleDescriptorWrite", "DescWriteFunc",
                <<srv_uuid, char_uuid, desc_uuid, value>>,
                NotRegistered(NULL), WriteResult(e), <<e>>)

-----------------------------------------------------------------------------
(* Application.StartAdvertising, Application.StopAdvertising *)

AdvertisementPath == "/org/bluez/advertisement/0"

DevicePath(device_name) == "/org/bluez/" \o device_name

\* serv_uuids: one element per advertised service of the map (a Go slice in
\* map iteration order; kept as UUID -> number of occurrences)
\* mutant: the advertised flag is not read
AdvertisedUUIDs_All(svcs) ==
    [u \in {gatt[svcs[p]].UUID : p \in DOMAIN svcs} |->
        Cardinality({p \in DOMAIN svcs : gatt[svcs[p]].UUID = u})]

AdvertisedUUIDs(svcs) ==
    LET adv == {p \in DOMAIN svcs : gatt[svcs[p]].advertised}
    IN  [u \in {gatt[svcs[p]].UUID : p \in adv} |->
            Cardinality({p \in adv : gatt[svcs[p]].UUID = u})]

NewLEAdvertisement1(device_name) ==
    [config |-> [objectPath |-> AdvertisementPath,
                 device_path |-> DevicePath(device_name)],
     properties |-> [Type |-> "peripheral",
                     LocalName |-> config.LocalName,
                     ServiceUUIDs |-> AdvertisedUUIDs(services),
                     Duration |-> 2,
                     Timeout |-> 60]]

\* the synchronous daemon calls, with what the daemon answered
RegisterAdvertisement(ad, reply) ==
    [call |-> "RegisterAdvertisement",
     arg |-> [object |-> ad.config.device_path, interface |-> LEAdvertisingManager1,
              path |-> ad.config.objectPath, options |-> EmptyMap],
     result |-> reply]

\* mutant: the device path is passed where the advertisement path is meant
UnregisterAdvertisement_OfDevice(ad, reply) ==
    [call |-> "UnregisterAdvertisement",
     arg |-> [object |-> ad.config.device_path, interface |-> LEAdvertisingManager1,
              path |-> ad.config.device_path],
     result |-> reply]

UnregisterAdvertisement(ad, reply) ==
    [call |-> "UnregisterAdvertisement",
     arg |-> [object |-> ad.config.device_path, interface |-> LEAdvertisingManager1,
              path |-> ad.config.objectPath],
     result |-> reply]

\* mutant: the guard of StartAdvertising is missing
AlreadyAdvertising_Never == FALSE

\* mutant: the guard asks whether the daemon registered the advertisement
AlreadyAdvertising_IfRegistered ==
    advertisement # NULL /\ advertisement.config.objectPath \in registered

AlreadyAdvertising == advertisement # NULL

\* mutant: the reference is kept only when the daemon registered it
StartedAdvertisement_IfRegistered(ad, fail) == IF fail = "none" THEN ad ELSE NULL

\* the reference StartAdvertising sets: what NewLEAdvertisement1 returned
StartedAdvertisement(ad, fail) == IF fail # "new" THEN ad ELSE NULL

\* mutant: the reference is cleared only when the daemon unregistered it
ClearedAdvertisement_OnSuccess(reply) == IF reply = NULL THEN NULL ELSE advertisement

\* the reference StopAdvertising leaves, whatever the daemon replied
ClearedAdvertisement(reply) == NULL

\* mutant: the daemon is called without a reference too
StopCalls_Unguarded(ad, reply) ==
    IF ad = NULL
    THEN <<[call |-> "UnregisterAdvertisement",
            arg |-> [object |-> "", interface |-> LEAdvertisingManager1, path |-> ""],
            result |-> reply]>>
    ELSE <<UnregisterAdvertisement(ad, reply)>>

\* the daemon calls of StopAdvertising on the reference ad
StopCalls(ad, reply) ==
    IF ad = NULL THEN <<>> ELSE <<UnregisterAdvertisement(ad, reply)>>

StartAdvertising(device_name, fail) ==
    /\ AlreadyAdvertising => fail = "none"
    /\ Fault(fail # "none")
    /\ LET ad == NewLEAdvertisement1(device_name)
           built == fail # "new"
           \* LEAdvertisement1.Expose: the object, then its introspection
           objectExported == built /\ fail # "expose"
           exposed == objectExported /\ fail # "introspect"
       IN  IF AlreadyAdvertising
           THEN /\ last' = [op |-> "StartAdvertising", arg |-> device_name,
                            calls |-> <<>>, err |-> NULL, value |-> NULL]
                /\ UNCHANGED <<advertisement, exported, daemon, registered>>
           ELSE /\ advertisement' = StartedAdvertisement(ad, fail)
                /\ exported' = IF objectExported
                               THEN exported \cup {ad.config.objectPath}
                               ELSE exported
                /\ daemon' = IF exposed THEN "RegisterAdvertisement" ELSE daemon
                /\ registered' = IF exposed /\ fail # "register"
                                 THEN registered \cup {ad.config.objectPath}
                                 ELSE registered
                /\ last' = [op |-> "StartAdvertising", arg |-> device_name,
                            calls |-> (IF built
                                       THEN <<Call("Expose", ad.config.objectPath)>>
                                       ELSE <<>>)
                                \o (IF exposed
                                    THEN <<RegisterAdvertisement(ad,
                                              IF fail = "register"
                                              THEN CHOOSE d \in DaemonErrors : TRUE
                                              ELSE NULL)>>
                                    ELSE <<>>),
                            err |-> CASE fail = "new" -> NewErr
                                      [] fail \in {"expose", "introspect"} -> ExportErr
                                      [] fail = "register" ->
                                            CHOOSE d \in DaemonErrors : TRUE
                                      [] OTHER -> NULL,
                            value |-> NULL]
    /\ UNCHANGED <<config, serviceIndex, gatt, services, objects,
                   introspection, bus>>

StopAdvertising(reply) ==
    /\ ~AlreadyAdvertising => reply = NULL
    /\ Fault(reply # NULL)
    /\ LET calls == StopCalls(advertisement, reply)
       IN  /\ advertisement' = IF AlreadyAdvertising
                                THEN ClearedAdvertisement(reply)
                                ELSE advertisement
           /\ daemon' = IF calls # <<>> THEN "UnregisterAdvertisement" ELSE daemon
           /\ registered' = IF calls # <<>> /\ reply = NULL
                            THEN registered \ {calls[1].arg.path}
                            ELSE registered
           /\ last' = [op |-> "StopAdvertising", arg |-> NULL, calls |-> calls,
                       err |-> IF AlreadyAdvertising THEN reply ELSE NULL,
                       value |-> NULL]
    /\ UNCHANGED <<config, serviceIndex, gatt, services, objects, exported,
                   introspection, bus>>

-----------------------------------------------------------------------------
(* Specifications *)

CharUUID == "00002A37" \o UUIDSuffix
DescUUID == "00002902" \o UUIDSuffix
CallbackReturns == {NULL} \cup CallbackErrors
AddFails == {"none", "expose", "tree", "directory"}
RemoveFails == {"none", "directory", "tree"}
RunFails == {"none", "name", "manager", "tree"}
StartFails == {"none", "new", "expose", "introspect", "register"}
DaemonReplies == {NULL} \cup DaemonErrors
\* inputs of GenerateUUID: of length 8, shorter and longer, and empty
UUIDValues == {"0000180D", "feed1234", "180D", "someBase0001", ""}

Handlers ==
    \/ \E srv \in ServiceUUIDs, b \in Payloads, e \in CallbackReturns :
          HandleRead(srv, CharUUID, b, e)
    \/ \E srv \in ServiceUUIDs, v \in Payloads, e \in CallbackReturns :
          HandleWrite(srv, CharUUID, v, e)
    \/ \E srv \in ServiceUUIDs, b \in Payloads, e \in CallbackReturns :
          HandleDescriptorRead(srv, CharUUID, DescUUID, b, e)
    \/ \E srv \in ServiceUUIDs, v \in Payloads, e \in CallbackReturns :
          HandleDescriptorWrite(srv, CharUUID, DescUUID, v, e)

Next ==
    \/ \E id \in DOMAIN gatt : AddCharacteristic(id)
    \/ \E id \in DOMAIN gatt : \E c \in DOMAIN gatt[id].characteristics :
          AddDescriptor(id, c)
    \/ \E id \in DOMAIN gatt, fail \in AddFails : AddService(id, fail)
    \/ \E id \in DOMAIN gatt, fail \in RemoveFails : RemoveService(id, fail)
    \/ \E fail \in RunFails : Run(fail)
    \/ \E dev \in DeviceNames, fail \in StartFails : StartAdvertising(dev, fail)
    \/ \E reply \in DaemonReplies : StopAdvertising(reply)
    \/ Handlers
    \/ \E uuid \in ServiceUUIDs, adv \in {<<>>, <<TRUE>>, <<FALSE>>}, ok \in BOOLEAN :
          CreateService(uuid, adv, ok)
    \/ \E v \in UUIDValues : GenerateUUID(v)

Spec == Init /\ [][Next]_vars

\* UUID construction alone, under every configuration of base and suffix.
NextUUID == \E v \in UUIDValues : GenerateUUID(v)

SpecUUID == Init /\ [][NextUUID]_vars

\* The dispatch handlers alone, under every configuration of the slots.
SpecDispatch == Init /\ [][Handlers]_vars

\* The object tree: services with their characteristics and descriptors are
\* built, added and removed and the application is run.  The UUID and the
\* advertised flag of a service, which no step of these operations reads, are
\* one value.
NextTree ==
    \/ CreateService(CHOOSE u \in ServiceUUIDs : TRUE, <<>>, TRUE)
    \/ \E id \in DOMAIN gatt : AddCharacteristic(id)
    \/ \E id \in DOMAIN gatt : \E c \in DOMAIN gatt[id].characteristics :
          AddDescriptor(id, c)
    \/ \E id \in DOMAIN gatt, fail \in AddFails : AddService(id, fail)
    \/ \E id \in DOMAIN gatt, fail \in RemoveFails : RemoveService(id, fail)
    \/ \E fail \in RunFails : Run(fail)

\* Path allocation: every input of CreateService, between additions and
\* removals of the services built.
NextPaths ==
    \/ \E uuid \in ServiceUUIDs, adv \in {<<>>, <<TRUE>>, <<FALSE>>}, ok \in BOOLEAN :
          CreateService(uuid, adv, ok)
    \/ \E id \in DOMAIN gatt : AddService(id, "none")
    \/ \E id \in DOMAIN gatt : RemoveService(id, "none")

\* the applications built from one of the two configurations of Configs
InitPaths == Init /\ config \in Configs

SpecPaths == InitPaths /\ [][NextPaths]_vars

\* the application built under a path other than the root
InitApp == Init /\ config \in Configs /\ config.ObjectPath # "/"

SpecTree == InitApp /\ [][NextTree]_vars

\* The directory: the same building, adding and removing of services, under
\* every failure of AddService and RemoveService, without Run, which writes
\* neither the service map nor the directory.
NextObjects ==
    \/ CreateService(CHOOSE u \in ServiceUUIDs : TRUE, <<>>, TRUE)
    \/ \E id \in DOMAIN gatt : AddCharacteristic(id)
    \/ \E id \in DOMAIN gatt : \E c \in DOMAIN gatt[id].characteristics :
          AddDescriptor(id, c)
    \/ \E id \in DOMAIN gatt, fail \in AddFails : AddService(id, fail)
    \/ \E id \in DOMAIN gatt, fail \in RemoveFails : RemoveService(id, fail)

SpecObjects == InitApp /\ [][NextObjects]_vars

\* Building between publishing: services of either UUID, advertised or not,
\* are built, with and without an error of the factory, while others are
\* added, with and without an export error, the application is run and
\* advertising is started and stopped.
NextCreate ==
    \/ \E uuid \in ServiceUUIDs, adv \in {<<>>, <<TRUE>>}, ok \in BOOLEAN :
          CreateService(uuid, adv, ok)
    \/ \E id \in DOMAIN gatt, fail \in {"none", "expose"} :
          gatt[id].objectPath \notin DOMAIN services /\ AddService(id, fail)
    \/ Run("none")
    \/ StartAdvertising("hci0", "none")
    \/ StopAdvertising(NULL)

SpecCreate == InitApp /\ [][NextCreate]_vars

\* Starting and stopping: advertised services are created and added, and
\* advertising is started and stopped under every answer of the bus and of
\* the daemon.
NextStartStop ==
    \/ \E uuid \in ServiceUUIDs : CreateService(uuid, <<TRUE>>, TRUE)
    \/ \E id \in DOMAIN gatt : AddService(id, "none")
    \/ \E dev \in DeviceNames, fail \in StartFails : StartAdvertising(dev, fail)
    \/ \E reply \in DaemonReplies : StopAdvertising(reply)

SpecStartStop == InitApp /\ [][NextStartStop]_vars

\* Advertising: services of every UUID and flag are created, the services
\* out of the map are added, with and without an export error, those in it
\* are removed, and advertising is started, with and without an error of the
\* export and of the daemon, and stopped, on one device.
NextAdvertising ==
    \/ \E uuid \in ServiceUUIDs, adv \in {<<>>, <<TRUE>>, <<FALSE>>} :
          CreateService(uuid, adv, TRUE)
    \/ \E id \in DOMAIN gatt, fail \in {"none", "expose"} :
          gatt[id].objectPath \notin DOMAIN services /\ AddService(id, fail)
    \/ \E id \in DOMAIN gatt :
          gatt[id].objectPath \in DOMAIN services /\ RemoveService(id, "none")
    \/ \E fail \in {"none", "expose", "register"} : StartAdvertising("hci0", fail)
    \/ StopAdvertising(NULL)

SpecAdvertising == InitApp /\ [][NextAdvertising]_vars

\* Dispatch between the tree operations: each handler may run, on one service
\* UUID, with every payload and callback answer, before and after every
\* CreateService, AddService, RemoveService, StartAdvertising and
\* StopAdvertising call, under a configuration with two slots set and two
\* nil.
NextInterleaved ==
    \/ CreateService(CHOOSE u \in ServiceUUIDs : TRUE, <<TRUE>>, TRUE)
    \/ \E id \in DOMAIN gatt : AddService(id, "none")
    \/ \E id \in DOMAIN gatt : RemoveService(id, "none")
    \/ \E fail \in {"none", "register"} : StartAdvertising("hci0", fail)
    \/ StopAdvertising(NULL)
    \/ \E b \in Payloads, e \in CallbackReturns :
          HandleRead(CHOOSE u \in ServiceUUIDs : TRUE, CharUUID, b, e)
    \/ \E v \in Payloads, e \in CallbackReturns :
          HandleWrite(CHOOSE u \in ServiceUUIDs : TRUE, CharUUID, v, e)
    \/ \E b \in Payloads, e \in CallbackReturns :
          HandleDescriptorRead(CHOOSE u \in ServiceUUIDs : TRUE, CharUUID, DescUUID, b, e)
    \/ \E v \in Payloads, e \in CallbackReturns :
          HandleDescriptorWrite(CHOOSE u \in ServiceUUIDs : TRUE, CharUUID, DescUUID, v, e)

SpecInterleaved == InitApp /\ [][NextInterleaved]_vars

-----------------------------------------------------------------------------
(* Properties *)

\* the service built at a path
ServiceAt(path) == gatt[CHOOSE i \in DOMAIN gatt : gatt[i].objectPath = path]

\* the external calls of the last operation, by name
CallsNamed(l, name) == {i \in 1..Len(l.calls) : l.calls[i].call = name}

\* C1: every CreateService call returns the path <appPath>/service<N> with N
\* above the counter before the call and above the N of every service built
\* before, a path no service built before has (added, removed or neither);
\* and serviceIndex never decreases.
C1_PathsNeverReused ==
    [][/\ serviceIndex' >= serviceIndex
       /\ \A i \in DOMAIN gatt : gatt[i].ID <= serviceIndex
       /\ (last'.op = "CreateService" /\ <<serviceIndex, gatt>>' # <<serviceIndex, gatt>>) =>
            LET N == serviceIndex'
                prefix == IF config.ObjectPath = "/" THEN "" ELSE config.ObjectPath
            IN  /\ N > serviceIndex
                /\ last'.arg = prefix \o "/service" \o ToString(N)
                /\ \A i \in DOMAIN gatt :
                      N > gatt[i].ID /\ gatt[i].objectPath # last'.arg
                /\ last'.arg \notin DOMAIN services \cup DOMAIN objects \cup exported
                /\ last'.err = NULL =>
                      /\ gatt'[last'.value].objectPath = last'.arg
                      /\ gatt'[last'.value].ID = N]_vars

\* C1 witness: a second service was built after the first one was added and
\* removed again.
C1_Witness ==
    /\ last.op = "CreateService" /\ last.err = NULL /\ serviceIndex = 2
    /\ 1 \in DOMAIN gatt
    /\ gatt[1].objectPath \in exported
    /\ gatt[1].objectPath \notin DOMAIN services

\* C2: when the export of the service fails, AddService returns that error
\* and service map, directory and published tree are as before the call; the
\* service's path is not in the service map.
C2_ExposeFailureLeavesStateUntouched ==
    [][(last'.op = "AddService" /\ last'.calls = <<Call("Expose", last'.arg)>>) =>
          /\ last'.err = ExportErr
          /\ services' = services
          /\ objects' = objects
          /\ introspection' = introspection
          /\ (last'.arg \notin DOMAIN services => last'.arg \notin DOMAIN services')]_vars

\* C3: after a successful AddService(s) the directory has the entry of
\* s.Path(), equal to s.Properties(); after a successful RemoveService(s)
\* it has no entry of s.Path().
C3_DirectoryFollowsAddRemove ==
    /\ (last.op = "AddService" /\ last.err = NULL) =>
          /\ last.arg \in DOMAIN objects
          /\ objects[last.arg] = Properties(ServiceAt(last.arg))
    /\ (last.op = "RemoveService" /\ last.err = NULL) =>
          last.arg \notin DOMAIN objects

\* C3 witness: a service that had been exported was removed from the map and
\* the directory, which keeps the entry of another one.
C3_Witness ==
    /\ last.op = "RemoveService" /\ last.err = NULL
    /\ CallsNamed(last, "RemoveObject") # {}
    /\ last.arg \in exported
    /\ \E i \in DOMAIN gatt : gatt[i].objectPath \in DOMAIN objects

\* the paths of the services of the map and of their characteristics and
\* descriptors
LivePaths == UNION {SubtreePaths(gatt[services[p]]) : p \in DOMAIN services}

TreeIsLive == introspection = {NodeName(p) : p \in LivePaths}

\* C4 as stated: after every AddService or RemoveService call, failed or
\* not, the published children are exactly the live paths.
C4_TreeExactAfterEveryCall ==
    (last.op \in {"AddService", "RemoveService"} /\ introspection # NoNode)
        => TreeIsLive

\* the last operation republished the root introspection
Republished ==
    /\ CallsNamed(last, "exportTree") # {}
    /\ last.err # ExportErr

\* C4 amended: after every AddService or RemoveService call that republished
\* the root introspection, the published children are exactly the live paths.
C4_TreeExactAfterRepublish ==
    (last.op \in {"AddService", "RemoveService"} /\ Republished) => TreeIsLive

\* C4 witness: a service with a characteristic and a descriptor is live and
\* published beside another one, after a removal.
C4_Witness ==
    /\ last.op = "RemoveService" /\ Republished
    /\ Cardinality(introspection) = 3
    /\ introspection # NoNode

\* the slot a handler reads, and whether it returns a payload
HandlerSlot ==
    [HandleRead |-> "ReadFunc", HandleWrite |-> "WriteFunc",
     HandleDescriptorRead |-> "DescReadFunc",
     HandleDescriptorWrite |-> "DescWriteFunc"]

\* C5: a handler whose slot is nil returns code -1 and calls nothing; one
\* whose callback fails returns code -2 with the callback's message; one
\* whose callback succeeds returns a nil error and, for reads, the callback's
\* payload; no other code is returned.
C5_DispatchErrors ==
    last.op \in DOMAIN HandlerSlot =>
        IF ~config[HandlerSlot[last.op]]
        THEN /\ last.calls = <<>>
             /\ last.err # NULL
             /\ last.err.code = -1
        ELSE /\ Len(last.calls) = 1
             /\ last.calls[1].call = HandlerSlot[last.op]
             /\ LET returned == last.calls[1].arg.returned
                    e == returned[Len(returned)]
                IN  /\ e # NULL => /\ last.err # NULL
                                   /\ last.err.code = -2
                                   /\ last.err.msg = e.msg
                    /\ e = NULL => /\ last.err = NULL
                                   /\ (Len(returned) = 2 => last.value = returned[1])

\* C5 witness: a read whose callback failed, after returning a payload.
C5_Witness ==
    /\ last.op = "HandleRead" /\ config.ReadFunc
    /\ last.err # NULL /\ last.err.code = -2
    /\ last.value = <<42>>

\* everything of the application but the record of the last operation
state == <<config, serviceIndex, gatt, services, objects, exported,
           introspection, bus, advertisement, daemon, registered, faults>>

\* the RegisterAdvertisement calls of an operation
Registers(l) == CallsNamed(l, "RegisterAdvertisement")

\* C6: a StartAdvertising call made while the advertisement reference is set
\* issues no call to the bus or the daemon, returns nil and changes nothing
\* of the application.
C6_StartIsIdempotent ==
    [][(last'.op = "StartAdvertising" /\ advertisement # NULL) =>
          /\ last'.calls = <<>>
          /\ last'.err = NULL
          /\ state' = state]_vars

\* C6 witness: a second StartAdvertising call returned while the reference
\* of the first one, registered with the daemon, was set.
C6_Witness ==
    /\ last.op = "StartAdvertising" /\ last.calls = <<>>
    /\ advertisement # NULL
    /\ daemon = "RegisterAdvertisement"

\* a StopAdvertising call on a set reference clears it, whatever the daemon
\* replied to its one UnregisterAdvertisement call, and returns that reply
StopClearsAndReturnsReply ==
    (last'.op = "StopAdvertising" /\ advertisement # NULL) =>
        /\ advertisement' = NULL
        /\ Len(last'.calls) = 1
        /\ last'.calls[1].call = "UnregisterAdvertisement"
        /\ last'.err = last'.calls[1].result

\* C7 as stated: StopAdvertising clears the reference and returns the
\* daemon's reply, and the StartAdvertising call that follows it builds an
\* advertisement and issues a RegisterAdvertisement call.
C7_StopClearsThenStartRegisters ==
    [][/\ StopClearsAndReturnsReply
       /\ (last'.op = "StartAdvertising" /\ last.op = "StopAdvertising") =>
             /\ advertisement' # NULL
             /\ Registers(last') # {}]_vars

\* C7 amended: StopAdvertising clears the reference and returns the daemon's
\* reply, and the StartAdvertising call that follows it is no no-op: it
\* builds an advertisement and, unless building or exporting it fails with
\* the error the call returns, issues a RegisterAdvertisement call.
C7_StopClearsThenStartBuilds ==
    [][/\ StopClearsAndReturnsReply
       /\ (last'.op = "StartAdvertising" /\ last.op = "StopAdvertising") =>
             /\ last'.err = NewErr \/ last'.calls # <<>>
             /\ last'.err \notin {NewErr, ExportErr} =>
                   /\ advertisement' # NULL
                   /\ Registers(last') # {}]_vars

\* C7 witness: StopAdvertising returned the error the daemon answered, and
\* the reference is nil.
C7_Witness ==
    /\ last.op = "StopAdvertising"
    /\ last.err \in DaemonErrors
    /\ advertisement = NULL
    /\ daemon = "UnregisterAdvertisement"

\* C8: a StopAdvertising call made while the reference is nil returns nil,
\* issues no call and changes nothing of the application.
C8_StopWithoutAdvertisement ==
    [][(last'.op = "StopAdvertising" /\ advertisement = NULL) =>
          /\ last'.err = NULL
          /\ last'.calls = <<>>
          /\ state' = state]_vars

\* C8 witness: StopAdvertising returned without a call, the reference nil.
C8_Witness ==
    /\ last.op = "StopAdvertising" /\ last.calls = <<>>
    /\ advertisement = NULL
    /\ daemon = "UnregisterAdvertisement"

\* C9: a StartAdvertising call issues at most one RegisterAdvertisement
\* call, and issues it only when the last call to the daemon's advertising
\* manager was not a RegisterAdvertisement; the one reference is of the one
\* advertisement path.
C9_OneAdvertisement ==
    [][/\ last'.op = "StartAdvertising" => Cardinality(Registers(last')) <= 1
       /\ (last'.op = "StartAdvertising" /\ Registers(last') # {}) =>
             /\ daemon # "RegisterAdvertisement"
             /\ advertisement = NULL
       /\ advertisement' # NULL =>
             advertisement'.config.objectPath = "/org/bluez/advertisement/0"]_vars

\* C9 witness: StartAdvertising issued its RegisterAdvertisement call, the
\* daemon refused it and the reference stays set.
C9_Witness ==
    /\ last.op = "StartAdvertising"
    /\ Registers(last) # {}
    /\ last.err \in DaemonErrors
    /\ advertisement # NULL

\* the UUIDs of the services of the map whose advertised flag is set
ExpectedUUIDs ==
    {gatt[i].UUID : i \in {j \in DOMAIN gatt :
                              /\ gatt[j].advertised
                              /\ gatt[j].objectPath \in DOMAIN services}}

\* the one RegisterAdvertisement call of StartAdvertising and the
\* ServiceUUIDs of the advertisement it registers
RegistersAdvertisedServices ==
    /\ Cardinality(Registers(last')) = 1
    /\ LET r == last'.calls[CHOOSE i \in Registers(last') : TRUE]
       IN  /\ r.arg.object = "/org/bluez/" \o last'.arg
           /\ r.arg.path = "/org/bluez/advertisement/0"
           /\ r.arg.options = EmptyMap
    /\ advertisement' # NULL
    /\ DOMAIN advertisement'.properties.ServiceUUIDs = ExpectedUUIDs

\* no operation but StartAdvertising and StopAdvertising touches the
\* advertisement
OthersKeepAdvertisement ==
    last'.op \notin {"StartAdvertising", "StopAdvertising"} =>
        advertisement' = advertisement

\* C10 as stated: a StartAdvertising call without an active advertisement
\* issues exactly one RegisterAdvertisement call, at /org/bluez/<deviceName>,
\* of /org/bluez/advertisement/0 with no options, and the ServiceUUIDs are
\* those of the advertised services of the map.
C10_StartRegistersAdvertisedServices ==
    [][/\ (last'.op = "StartAdvertising" /\ advertisement = NULL) =>
             RegistersAdvertisedServices
       /\ OthersKeepAdvertisement]_vars

\* C10 amended: the same of every such call in which the advertisement is
\* built and exported without an error.
C10_StartRegistersWhenExported ==
    [][/\ (last'.op = "StartAdvertising" /\ advertisement = NULL
              /\ last'.err \notin {NewErr, ExportErr}) =>
             RegistersAdvertisedServices
       /\ OthersKeepAdvertisement]_vars

\* C10 witness: advertising was started with one advertised service added
\* and another advertised service, of another UUID, built but not in the map.
C10_Witness ==
    /\ last.op = "StartAdvertising" /\ Registers(last) # {}
    /\ advertisement # NULL
    /\ DOMAIN gatt = {1, 2}
    /\ gatt[1].advertised /\ gatt[2].advertised /\ gatt[1].UUID # gatt[2].UUID
    /\ DOMAIN services = {gatt[1].objectPath}
    /\ DOMAIN advertisement.properties.ServiceUUIDs = {gatt[1].UUID}

\* the application and the record of the last operation, as one value that
\* any two states can be compared on
observed == <<state, ToString(last)>>

\* C11 as stated: GenerateUUID(v) returns v followed by the fixed suffix
\* UUIDSuffix when v has length 8, and the configured base, v and the fixed
\* suffix otherwise, whatever the configuration; and it changes nothing of
\* the application.
C11_GenerateUUIDFixedSuffix ==
    [][last'.op = "GenerateUUID" =>
          /\ last'.value = (IF Len(last'.arg) = 8 THEN "" ELSE config.UUID)
                               \o last'.arg \o UUIDSuffix
          /\ state' = state]_observed

\* the paths CreateService has given to the services it built
ServicePaths == {gatt[i].objectPath : i \in DOMAIN gatt}

\* C12 as stated: between operations the service paths with an entry in the
\* directory are exactly the paths of the service map, also after calls that
\* returned an error.
C12_DirectoryEqualsServiceMap ==
    DOMAIN objects \cap ServicePaths = DOMAIN services

\* C13: the directory holds no service path that is not exported; and an
\* AddService call issues its AddObject call third, after the Expose call of
\* the service and after the exportTree call whose children name the
\* service, both without an error: the service is exported and published.
C13_ExportBeforeDirectory ==
    /\ DOMAIN objects \cap ServicePaths \subseteq exported
    /\ last.op = "AddService" =>
          \A i \in CallsNamed(last, "AddObject") :
              /\ i = 3
              /\ last.calls[1] = Call("Expose", last.arg)
              /\ last.calls[2].call = "exportTree"
              /\ NodeName(last.arg) \in last.calls[2].arg
              /\ last.arg \in exported
              /\ NodeName(last.arg) \in introspection

\* C13 witness: AddService told the directory of a service with a
\* characteristic, after the exports, and the notification failed.
C13_Witness ==
    /\ last.op = "AddService" /\ last.err = SignalErr
    /\ CallsNamed(last, "AddObject") = {3}
    /\ last.arg \in DOMAIN objects
    /\ Cardinality(introspection) >= 2

\* the reference is set and the daemon refused the registration of it: the
\* last call to the advertising manager was a RegisterAdvertisement that did
\* not register the path
RegistrationRefused ==
    /\ advertisement # NULL
    /\ daemon = "RegisterAdvertisement"
    /\ advertisement.config.objectPath \notin registered

\* the reference is set and the last call to the advertising manager was a
\* RegisterAdvertisement, whatever the daemon replied to it
Registering == advertisement # NULL /\ daemon = "RegisterAdvertisement"

\* the reply of the daemon to the RegisterAdvertisement call of an operation
RegisterReply(l) == l.calls[CHOOSE i \in Registers(l) : TRUE].result

\* C14: a StartAdvertising call whose RegisterAdvertisement call fails
\* returns the daemon's error and leaves the reference set, the advertisement
\* object exported; from then on every StartAdvertising call issues no call
\* and returns nil, and only StopAdvertising ends this.
C14_RefusedRegistrationStaysSet ==
    [][/\ (last'.op = "StartAdvertising" /\ Registers(last') # {}
              /\ RegisterReply(last') # NULL) =>
             /\ last'.err = RegisterReply(last')
             /\ advertisement' # NULL
             /\ advertisement'.config.objectPath \in exported'
             /\ registered' = registered
             /\ Registering'
       /\ (Registering /\ last'.op = "StartAdvertising") =>
             /\ last'.calls = <<>>
             /\ last'.err = NULL
             /\ state' = state
       /\ (Registering /\ ~Registering') =>
             last'.op = "StopAdvertising"]_observed

\* C14 witness: a StartAdvertising call returned nil without a call while
\* the reference of a registration the daemon refused was set.
C14_Witness ==
    /\ last.op = "StartAdvertising" /\ last.calls = <<>> /\ last.err = NULL
    /\ RegistrationRefused

\* C15: a RemoveService call for a path that is not in the service map
\* issues no call, returns nil and changes nothing; one for a path of the map
\* deletes that one path from the map and from the directory, whose other
\* entries, those of the service's characteristics and descriptors among
\* them, stay as they were.
C15_RemoveOnlyTheService ==
    [][last'.op = "RemoveService" =>
          IF last'.arg \notin DOMAIN services
          THEN /\ last'.calls = <<>>
               /\ last'.err = NULL
               /\ state' = state
          ELSE /\ services' = MapDelete(services, last'.arg)
               /\ DOMAIN objects' = DOMAIN objects \ {last'.arg}
               /\ \A p \in DOMAIN objects' : objects'[p] = objects[p]
               /\ \A p \in SubtreePaths(ServiceAt(last'.arg)) \ {last'.arg} :
                     p \in DOMAIN objects => p \in DOMAIN objects']_observed

\* C15 witness: a service of the map was removed, and the directory still
\* has the entries of its characteristic and of its descriptor.
C15_Witness ==
    /\ last.op = "RemoveService"
    /\ CallsNamed(last, "RemoveObject") # {}
    /\ last.arg \notin DOMAIN objects
    /\ LET children == SubtreePaths(ServiceAt(last.arg)) \ {last.arg}
       IN  /\ Cardinality(children) = 2
           /\ children \subseteq DOMAIN objects

\* C16 as stated: the ObjectManager is exported at the root path, by Run,
\* once: no Run exports it again; and no AddService call updates the
\* directory or the published tree before that export.
C16_DirectoryExportedOnceBeforeServices ==
    [][/\ \A i \in CallsNamed(last', "Export") : last'.calls[i].arg = Path
       /\ (last'.op = "Run" /\ bus.manager) => CallsNamed(last', "Export") = {}
       /\ (last'.op = "AddService"
              /\ (objects' # objects \/ introspection' # introspection)) =>
             bus.manager]_observed

\* bitwise or of two flag words
RECURSIVE BitOr(_, _)
BitOr(a, b) ==
    IF a = 0 THEN b
    ELSE IF b = 0 THEN a
    ELSE (IF a % 2 = 1 \/ b % 2 = 1 THEN 1 ELSE 0) + 2 * BitOr(a \div 2, b \div 2)

\* C17 as stated: expose() issues one RequestName call, first, whose flags
\* word has both the replace-existing and the do-not-queue flag set; when the
\* request fails it returns that error and exports nothing: neither the
\* ObjectManager nor the introspection tree.
C17_RequestNameFlags ==
    last.op = "Run" =>
        /\ CallsNamed(last, "RequestName") = {1}
        /\ last.calls[1].arg = BitOr(NameFlagReplaceExisting, NameFlagDoNotQueue)
        /\ BitAnd(last.calls[1].arg, NameFlagReplaceExisting) = NameFlagReplaceExisting
        /\ BitAnd(last.calls[1].arg, NameFlagDoNotQueue) = NameFlagDoNotQueue
        /\ last.err = NameErr => Len(last.calls) = 1

\* C18: CreateService leaves the service map, the directory, the exported
\* paths, the published tree, the bus and the advertisement as they were.  A
\* service path enters the service map and the directory only in an
\* AddService call for that path, and the published tree only while it is in
\* the service map; and an advertisement counts in its ServiceUUIDs only the
\* advertised services of the service map.  So the path of a service that
\* was built and never added is in none of them.
C18_CreateServiceExportsNothing ==
    [][/\ last'.op = "CreateService" =>
             /\ serviceIndex' = serviceIndex + 1
             /\ <<services, objects, exported, introspection, bus,
                   advertisement, daemon, registered>>'
                  = <<services, objects, exported, introspection, bus,
                      advertisement, daemon, registered>>
       /\ \A p \in ServicePaths' :
             /\ p \in (DOMAIN services' \ DOMAIN services)
                     \cup (DOMAIN objects' \ DOMAIN objects) =>
                   last'.op = "AddService" /\ last'.arg = p
             /\ NodeName(p) \in introspection' \ introspection =>
                   p \in DOMAIN services'
       /\ (advertisement' # NULL /\ advertisement = NULL) =>
             \A u \in DOMAIN advertisement'.properties.ServiceUUIDs :
                 advertisement'.properties.ServiceUUIDs[u] =
                     Cardinality({p \in DOMAIN services :
                                     /\ ServiceAt(p).advertised
                                     /\ ServiceAt(p).UUID = u})]_observed

\* C18 witness: an advertised service was built while another one is in the
\* map, the directory and the published tree and is advertised; the new
\* one is in none of them.
C18_Witness ==
    /\ last.op = "CreateService" /\ last.err = NULL
    /\ DOMAIN gatt = {1, 2}
    /\ gatt[2].advertised
    /\ DOMAIN services = {gatt[1].objectPath}
    /\ DOMAIN objects = {gatt[1].objectPath}
    /\ introspection = {NodeName(gatt[1].objectPath)}
    /\ advertisement # NULL
    /\ gatt[2].UUID \notin DOMAIN advertisement.properties.ServiceUUIDs

\* what a handler returns in the application as built, before any other
\* operation: a function of the slot and of what the callback returned
ResultAlone(op, returned) ==
    LET read == op \in {"HandleRead", "HandleDescriptorRead"}
    IN  IF ~config[HandlerSlot[op]]
        THEN NotRegistered(IF read THEN <<>> ELSE NULL)
        ELSE IF read THEN ReadResult(returned[1], returned[2])
             ELSE WriteResult(returned[1])

Unregisters(l) == CallsNamed(l, "UnregisterAdvertisement")

\* C20 as stated: whenever the reference is set the daemon holds its path
\* registered; StartAdvertising returns nil only when it is registered; and
\* StopAdvertising issues UnregisterAdvertisement only for a path the daemon
\* holds registered.
C20_ReferenceTracksRegistration ==
    [][/\ advertisement' # NULL =>
             advertisement'.config.objectPath \in registered'
       /\ (last'.op = "StartAdvertising" /\ last'.err = NULL) =>
             AdvertisementPath \in registered'
       /\ \A i \in Unregisters(last') :
             last'.calls[i].arg.path \in registered]_observed

\* C20 amended: the reference tracks the advertisement built, not its
\* registration.  It becomes set exactly in a StartAdvertising call that
\* builds an advertisement, whatever the export and the daemon answer, and
\* nil exactly in a StopAdvertising call; the daemon comes to hold the path
\* only by a RegisterAdvertisement call that succeeds, which leaves the
\* reference set; StartAdvertising returns nil when the reference was set
\* already, without a call, or when its RegisterAdvertisement call
\* succeeded; and every UnregisterAdvertisement call is for the path and the
\* device of the reference that was set, registered or not.
C20_ReferenceTracksBuild ==
    [][/\ (advertisement = NULL /\ advertisement' # NULL) =>
             last'.op = "StartAdvertising" /\ last'.err # NewErr
       /\ (last'.op = "StartAdvertising" /\ advertisement = NULL) =>
             (advertisement' # NULL) = (last'.err # NewErr)
       /\ (advertisement # NULL /\ advertisement' # advertisement) =>
             last'.op = "StopAdvertising" /\ advertisement' = NULL
       /\ last'.op = "StopAdvertising" => advertisement' = NULL
       /\ registered' \ registered # {} =>
             /\ last'.op = "StartAdvertising" /\ last'.err = NULL
             /\ advertisement' # NULL
             /\ registered' \ registered = {advertisement'.config.objectPath}
       /\ (last'.op = "StartAdvertising" /\ last'.err = NULL) =>
             \/ advertisement # NULL /\ last'.calls = <<>>
             \/ /\ Registers(last') # {}
                /\ RegisterReply(last') = NULL
                /\ AdvertisementPath \in registered'
       /\ \A i \in Unregisters(last') :
             /\ last'.op = "StopAdvertising"
             /\ advertisement # NULL
             /\ last'.calls[i].arg.path = advertisement.config.objectPath
             /\ last'.calls[i].arg.object = advertisement.config.device_path]_observed

\* C20 witness: StartAdvertising returned nil without a call while the
\* reference set is of an advertisement whose export failed: it is neither
\* exported nor registered with the daemon.
C20_Witness ==
    /\ last.op = "StartAdvertising" /\ last.err = NULL /\ last.calls = <<>>
    /\ advertisement # NULL
    /\ advertisement.config.objectPath \notin exported
    /\ registered = {}

====
